---- MODULE Spec2Model ----
(***************************************************************************)
(* A model of src/src/devin-client.js: the DevinClient class that drives   *)
(* remote Devin sessions for the scope, plan and execute stages.           *)
(*                                                                         *)
(* Texts are sequences of tokens.  "{" and "}" are the two brace           *)
(* characters, "w" is a run of prose without braces, "n" is a JSON number  *)
(* literal, and every other token is the serialised member list of one of  *)
(* the payload objects below (the text between the braces of its JSON      *)
(* form).                                                                  *)
(***************************************************************************)
EXTENDS Integers, Sequences, FiniteSets, TLC

\* ------------------------------------------------------------------------
\* Program constants (milliseconds)
\* ------------------------------------------------------------------------
POLL_INTERVAL == 5000
MAX_POLL_TIME == 300000

\* ------------------------------------------------------------------------
\* Values
\* ------------------------------------------------------------------------
\* JavaScript undefined / null for a string-valued field
Absent == "<absent>"

\* placeholder for "no object here" in record-valued variables
Null == [null |-> TRUE]

\* the object with no fields, {}
EmptyObj == [k \in {} |-> TRUE]

\* { ...a, ...b }: object spread, later fields override earlier ones
Spread(a, b) ==
    [k \in (DOMAIN a) \cup (DOMAIN b) |-> IF k \in DOMAIN b THEN b[k] ELSE a[k]]

Has(obj, k) == k \in DOMAIN obj

\* ------------------------------------------------------------------------
\* Remote payloads: what the agent can put in structured_output or in the
\* JSON of a message.  The client validates none of it.
\* ------------------------------------------------------------------------
GoodScope ==
    [scope |-> <<"remote scope">>, complexity |-> 4, confidence_score |-> 80,
     requirements |-> <<"remote requirement">>, risks |-> <<"remote risk">>,
     estimated_time |-> <<"2 hours">>]

GoodPlan ==
    [steps |-> <<"remote step">>, files_to_create |-> <<"a.js">>,
     files_to_modify |-> <<"b.js">>, testing_strategy |-> <<"remote tests">>,
     dependencies |-> <<"axios">>, success_criteria |-> <<"remote criterion">>]

PayloadNames == {"scope", "plan", "range", "mark", "sid", "planmark"}

PayloadOf(name) ==
    CASE name = "scope"    -> GoodScope
      [] name = "plan"     -> GoodPlan
      [] name = "range"    -> [GoodScope EXCEPT !.complexity = 11, !.confidence_score = 0]
      [] name = "mark"     -> Spread(GoodScope, [fallback |-> TRUE])
      [] name = "planmark" -> Spread(GoodPlan, [fallback |-> TRUE])
      [] name = "sid"      -> Spread(GoodScope, [session_id |-> "sX", session_url |-> "uX"])

Payloads == {PayloadOf(n) : n \in PayloadNames} \cup {EmptyObj}

\* ------------------------------------------------------------------------
\* extractJson (String.prototype.match with /\{[\s\S]*\}/) and JSON.parse
\* ------------------------------------------------------------------------
Positions(text, tok) == {i \in 1..Len(text) : text[i] = tok}

Min(S) == CHOOSE x \in S : \A y \in S : x <= y
Max(S) == CHOOSE x \in S : \A y \in S : x >= y

\* variant: the lazy pattern, up to the first "}" after the first "{"
extractJson_Lazy(text) ==
    LET opens  == {i \in Positions(text, "{") :
                      \E j \in Positions(text, "}") : j > i}
    IN  IF opens = {} THEN text
        ELSE SubSeq(text, Min(opens),
                    Min({j \in Positions(text, "}") : j > Min(opens)}))

\* the leftmost match of the greedy pattern: from the first "{" that has a "}"
\* somewhere after it, to the last "}" of the text
extractJson(text) ==
    LET opens  == {i \in Positions(text, "{") :
                      \E j \in Positions(text, "}") : j > i}
    IN  IF opens = {} THEN text
        ELSE SubSeq(text, Min(opens), Max(Positions(text, "}")))

\* JSON.parse: ok = FALSE stands for the SyntaxError it throws
JSONparse(text) ==
    IF text = <<"n">> THEN [ok |-> TRUE, kind |-> "number", obj |-> EmptyObj]
    ELSE IF text = <<"{", "}">> THEN [ok |-> TRUE, kind |-> "object", obj |-> EmptyObj]
    ELSE IF Len(text) = 3 /\ text[1] = "{" /\ text[3] = "}" /\ text[2] \in PayloadNames
         THEN [ok |-> TRUE, kind |-> "object", obj |-> PayloadOf(text[2])]
    ELSE [ok |-> FALSE, kind |-> "error", obj |-> EmptyObj]

\* ------------------------------------------------------------------------
\* getLastDevinMessage
\* ------------------------------------------------------------------------
AgentTypes == {"tool_output", "assistant", "devin"}

\* the null getLastDevinMessage returns, as distinct from every text
NullText == <<Absent>>

\* if (lastMessage): null and the empty text are falsy
Truthy(m) == m # NullText /\ m # <<>>

\* variant: the last message of any author
getLastDevinMessage_AnyType(session) ==
    LET msgs == session.messages
    IN  IF Len(msgs) = 0 THEN NullText ELSE msgs[Len(msgs)].message

\* variant: the first of the agent-authored messages
getLastDevinMessage_First(session) ==
    LET msgs == IF Has(session, "messages") THEN session.messages ELSE <<>>
        idx  == {i \in 1..Len(msgs) : msgs[i].type \in AgentTypes}
    IN  IF Len(msgs) = 0 \/ idx = {} THEN NullText ELSE msgs[Min(idx)].message

\* a session without a messages field is read as one with no messages
getLastDevinMessage(session) ==
    LET msgs == IF Has(session, "messages") THEN session.messages ELSE <<>>
        idx  == {i \in 1..Len(msgs) : msgs[i].type \in AgentTypes}
    IN  IF Len(msgs) = 0 \/ idx = {} THEN NullText ELSE msgs[Max(idx)].message

\* ------------------------------------------------------------------------
\* fallbackScoping and fallbackActionPlan
\* ------------------------------------------------------------------------
includes(labels, l) == \E i \in 1..Len(labels) : labels[i] = l

MathMin(a, b) == IF a < b THEN a ELSE b
MathMax(a, b) == IF a > b THEN a ELSE b

Clamp(c) == MathMin(10, MathMax(1, c))

\* variant: confidence keeps its initial value
Confidence_Initial(complexity) == 75

Confidence(complexity) == MathMax(20, 100 - (complexity * 8))

\* variant: a body of exactly 1000 characters already counts as long
RawComplexity_BodyAtLeast(i) ==
    3 + (IF i.bodyLength >= 1000 THEN 2 ELSE 0)
      + (IF Len(i.labels) > 3 THEN 1 ELSE 0)
      - (IF includes(i.labels, "bug") THEN 1 ELSE 0)
      + (IF includes(i.labels, "enhancement") THEN 1 ELSE 0)
      + (IF includes(i.labels, "complex") THEN 3 ELSE 0)

RawComplexity(i) ==
    3 + (IF i.bodyLength > 1000 THEN 2 ELSE 0)
      + (IF Len(i.labels) > 3 THEN 1 ELSE 0)
      - (IF includes(i.labels, "bug") THEN 1 ELSE 0)
      + (IF includes(i.labels, "enhancement") THEN 1 ELSE 0)
      + (IF includes(i.labels, "complex") THEN 3 ELSE 0)

fallbackScoping(i) ==
    LET complexity == Clamp(RawComplexity(i))
    IN  [scope |-> <<"Basic analysis of issue #", ToString(i.number), ": ", i.title>>,
         complexity |-> complexity,
         confidence_score |-> Confidence(complexity),
         requirements |-> <<"Review issue description", "Implement required changes",
                            "Test the solution", "Update documentation if needed">>,
         risks |-> <<"Limited context from issue description",
                     "Potential unknown dependencies">>,
         estimated_time |-> <<ToString(complexity * 2), " hours">>,
         fallback |-> TRUE]

fallbackActionPlan(i, scope) ==
    [steps |-> <<"Analyze current codebase structure", "Implement the required changes",
                 "Test the implementation", "Create or update tests",
                 "Update documentation", "Submit pull request">>,
     files_to_create |-> <<>>,
     files_to_modify |-> <<>>,
     testing_strategy |-> <<"Manual testing and automated tests where applicable">>,
     dependencies |-> <<>>,
     success_criteria |-> <<"Issue requirements are met", "Code follows project standards",
                            "Tests pass", "Documentation is updated">>,
     fallback |-> TRUE]

\* the object scopeIssue returns when the last message cannot be parsed
ParseFailureDefault(lastMessage) ==
    [scope |-> lastMessage, complexity |-> 5, confidence_score |-> 50,
     requirements |-> <<"Review Devin session for details">>,
     risks |-> <<"Could not parse structured response">>,
     estimated_time |-> <<"See Devin session">>]

\* ------------------------------------------------------------------------
\* Inputs of the calls and answers of the transport
\* ------------------------------------------------------------------------
Issues ==
    {[number |-> 42, title |-> "Fix crash", bodyLength |-> 1200,
      labels |-> <<"bug", "complex">>],
     [number |-> 7, title |-> "Add export", bodyLength |-> 0,
      labels |-> <<"enhancement", "complex", "ui", "api">>]}

\* the scope results a caller hands to generateActionPlan: one produced by
\* fallbackScoping alone (no session id) and one that names a scope session
ScopeArgs ==
    {fallbackScoping(CHOOSE i \in Issues : i.number = 42),
     Spread([session_id |-> "s1", session_url |-> "u1"], GoodScope)}

\* the action plans a caller hands to executeActionPlan: a plan with steps
\* and one without a steps field
ActionPlans == {GoodPlan, EmptyObj}

\* the caller's onStatus argument: undefined, a function that always returns,
\* a function that can throw
OnStatusKinds == {"none", "returns", "throws"}

\* what one invocation of the callback can throw: nothing ("no": it returns),
\* an Error object, or null / undefined
CallbackThrows(cb) ==
    IF cb = "throws" THEN {"no", "error", "nullish"} ELSE {"no"}

\* time a request can take; axios is created without a timeout
Latencies == {0, MAX_POLL_TIME}

\* the status fields of a getSession answer
StatusPairs ==
    {[status_enum |-> "running",   status |-> Absent],
     [status_enum |-> Absent,      status |-> "running"],
     [status_enum |-> "suspended", status |-> Absent],
     [status_enum |-> "blocked",   status |-> Absent],
     [status_enum |-> Absent,      status |-> "blocked"],
     [status_enum |-> "finished",  status |-> Absent],
     [status_enum |-> "expired",   status |-> Absent],
     [status_enum |-> "finished",  status |-> "running"]}

Msg(type, text) == [type |-> type, message |-> text]

Prose == <<"w", "w">>
Wrapped(name) == <<"w", "{", name, "}", "w">>
Bare(name) == <<"{", name, "}">>

MessageLists ==
    {<<>>,
     <<Msg("user", Bare("scope"))>>,
     <<Msg("devin", Prose)>>,
     <<Msg("devin", <<>>)>>,
     <<Msg("devin", Wrapped("scope"))>>,
     <<Msg("devin", Wrapped("plan"))>>,
     <<Msg("devin", Wrapped("mark"))>>,
     <<Msg("devin", Wrapped("planmark"))>>,
     <<Msg("devin", Bare("range"))>>,
     <<Msg("devin", Bare("sid"))>>,
     <<Msg("devin", <<"{", "}">>)>>,
     <<Msg("devin", <<"n">>)>>,
     <<Msg("devin", <<"{", "scope", "}", "w", "{", "range", "}">>)>>,
     <<Msg("devin", <<"}", "w", "{">>)>>,
     <<Msg("assistant", Bare("scope")), Msg("user", Bare("range"))>>,
     <<Msg("tool_output", Prose), Msg("system", Bare("scope"))>>}

\* the body of a getSession answer: structured_output (Null when the field
\* is missing) and messages
Bodies ==
    {[structured_output |-> p, messages |-> m] :
        p \in Payloads, m \in {<<>>, <<Msg("devin", Bare("range"))>>}}
      \cup {[structured_output |-> Null, messages |-> m] : m \in MessageLists}

\* the answer of createSession
NewSession == [session_id |-> "s2", url |-> "u2"]

\* ------------------------------------------------------------------------
\* State
\* ------------------------------------------------------------------------
VARIABLES
    apiKey,     \* this.apiKey is set
    op,         \* the stage call in progress: idle, scope, plan, execute
    issue,      \* its issue argument
    scopeArg,   \* generateActionPlan's scope argument
    actionPlan, \* executeActionPlan's actionPlan argument
    onStatus,   \* its onStatus argument
    pc,         \* where the call is suspended
    path,       \* plan stage: continue (follow-up on the scope session) or fresh
    sid,        \* session_id the call works with
    url,        \* and its URL
    now,        \* Date.now(), relative to the issue of the latest request
                \* other than a poll fetch
    start,      \* pollSession: start
    entered,    \* the clock when the latest pollSession was entered
    nGet,       \* pollSession: getSession calls made by this poll
    nSleep,     \* pollSession: completed suspensions of this poll
    status,     \* pollSession: status observed by the latest tick
    pollExit,   \* how the latest pollSession ended
    timeoutAt,  \* time since pollSession was entered when it raised the timeout
                \* error, -1 when it has not
    nCb,        \* invocations of the caller's onStatus in this poll
    cbStatus,   \* the status handed to the latest invocation
    session,    \* the session pollSession returned
    outcome,    \* none, returned, threw
    result,     \* the returned object
    nCreate,    \* createSession requests issued by the call
    nSend,      \* sendMessage requests issued by the call
    polled,     \* ids of the sessions the call fetched in a poll
    fetched,    \* ids of the sessions the call issued a getSession request for
    prompt,     \* prompt of the createSession request the call issued
    scopeFetch, \* plan stage: the answer to getSession(scope.session_id)
    pickedUp,   \* remote side: the agent has taken up the follow-up message
    rival,      \* where a second generateActionPlan call that was handed the
                \* same scope result stands: idle, cont_get, cont_send, poll
                \* (follow-up sent), create (no follow-up sent)
    route       \* the dashboard's execute request in progress: the handler's
                \* position, the ticket fetched, the plan of the request body,
                \* the HTTP status answered, the comment posted

callVars == <<op, issue, scopeArg, actionPlan, onStatus>>
pollVars == <<start, entered, nGet, nSleep, status, pollExit, timeoutAt, nCb, cbStatus>>
histVars == <<nCreate, nSend, polled, fetched, prompt, scopeFetch>>
vars == <<apiKey, callVars, pc, path, sid, url, now, pollVars, session,
          outcome, result, histVars, pickedUp, rival, route>>

\* no execute request is being handled
NoRequest ==
    [pc |-> "idle", number |-> 0, issue |-> Null, body |-> Null, http |-> 0,
     comment |-> Null]

\* session.status_enum || session.status
StatusOf(s) == IF s.status_enum # Absent THEN s.status_enum ELSE s.status

Init ==
    /\ apiKey \in BOOLEAN
    /\ op = "idle" /\ issue = Null /\ scopeArg = Null /\ actionPlan = Null
    /\ onStatus = "none"
    /\ pc = "idle" /\ path = "none" /\ sid = Absent /\ url = Absent
    /\ now = 0 /\ start = 0 /\ entered = 0 /\ nGet = 0 /\ nSleep = 0 /\ status = Absent
    /\ pollExit = "none" /\ timeoutAt = -1 /\ nCb = 0 /\ cbStatus = Absent
    /\ session = Null /\ outcome = "none" /\ result = Null
    /\ nCreate = 0 /\ nSend = 0 /\ polled = {} /\ fetched = {}
    /\ prompt = Null /\ scopeFetch = Null
    /\ pickedUp = FALSE /\ rival = "idle" /\ route = NoRequest

\* ------------------------------------------------------------------------
\* Result resolution
\* ------------------------------------------------------------------------
\* scopeIssue after pollSession returned s
ScopeResolve(s, i, id, u) ==
    LET base        == [session_id |-> id, session_url |-> u]
        lastMessage == getLastDevinMessage(s)
        parsed      == JSONparse(extractJson(lastMessage))
    IN  IF s.structured_output # Null THEN Spread(base, s.structured_output)
        ELSE IF Truthy(lastMessage)
             THEN IF parsed.ok THEN Spread(base, parsed.obj)
                  ELSE Spread(base, ParseFailureDefault(lastMessage))
        ELSE Spread(base, fallbackScoping(i))

\* variant: a message that cannot be parsed is returned as in scopeIssue
PlanResolve_RawMessage(s, i, sc, id, u) ==
    LET base        == [session_id |-> id, session_url |-> u]
        lastMessage == getLastDevinMessage(s)
        parsed      == JSONparse(extractJson(lastMessage))
    IN  IF s.structured_output # Null THEN Spread(base, s.structured_output)
        ELSE IF Truthy(lastMessage)
             THEN IF parsed.ok THEN Spread(base, parsed.obj)
                  ELSE Spread(base, ParseFailureDefault(lastMessage))
        ELSE Spread(base, fallbackActionPlan(i, sc))

\* generateActionPlan after the poll of its new session returned s
PlanResolve(s, i, sc, id, u) ==
    LET base        == [session_id |-> id, session_url |-> u]
        lastMessage == getLastDevinMessage(s)
        parsed      == JSONparse(extractJson(lastMessage))
    IN  IF s.structured_output # Null THEN Spread(base, s.structured_output)
        ELSE IF Truthy(lastMessage) /\ parsed.ok THEN Spread(base, parsed.obj)
        ELSE Spread(base, fallbackActionPlan(i, sc))

\* generateActionPlan after the poll of the scope session returned s:
\* does the continuation return a plan
ContinueYields(s) ==
    \/ s.structured_output # Null
    \/ /\ Truthy(getLastDevinMessage(s))
       /\ JSONparse(extractJson(getLastDevinMessage(s))).ok

ContinueResolve(s, sc) ==
    LET base == [session_id |-> sc.session_id, session_url |-> sc.session_url]
    IN  IF s.structured_output # Null THEN Spread(base, s.structured_output)
        ELSE Spread(base, JSONparse(extractJson(getLastDevinMessage(s))).obj)

\* ------------------------------------------------------------------------
\* Exceptions.  err is what was thrown: "error" for an Error object (axios
\* failures, the poll timeout, an Error thrown by the callback), "nullish"
\* for null or undefined.
\* ------------------------------------------------------------------------
Returned(r) == [pc |-> "done", path |-> path, outcome |-> "returned", result |-> r]
Threw == [pc |-> "done", path |-> path, outcome |-> "threw", result |-> Null]

\* variant: the handler asks for a session once more
ScopeCatch_Retries(err) ==
    [pc |-> "create", path |-> path, outcome |-> "none", result |-> Null]

\* catch (error) of scopeIssue: the argument of console.error reads
\* error.response, a TypeError when error is null or undefined
ScopeCatch(err) ==
    IF err = "nullish" THEN Threw ELSE Returned(fallbackScoping(issue))

\* variant: the handler raises the error again
PlanCatch_Rethrows(err) == Threw

\* catch (error) of generateActionPlan
PlanCatch(err) ==
    IF err = "nullish" THEN Threw ELSE Returned(fallbackActionPlan(issue, scopeArg))

\* variant: a failed continuation ends the call with the local plan
ContinueCatch_GivesUp ==
    [pc |-> "done", path |-> path, outcome |-> "returned",
     result |-> fallbackActionPlan(issue, scopeArg)]

\* catch {} around the continuation: go on to the new session
ContinueCatch == [pc |-> "create", path |-> "fresh", outcome |-> "none", result |-> Null]

\* variant: executeActionPlan absorbs the exception like the other stages
Catch_ExecuteDegrades(err) ==
    CASE op = "scope"                       -> ScopeCatch(err)
      [] op = "plan" /\ path = "continue"   -> ContinueCatch
      [] op = "plan" /\ path # "continue"   -> PlanCatch(err)
      [] OTHER                              -> Returned(fallbackActionPlan(issue, actionPlan))

\* where an exception raised at the current position of the call ends up
Catch(err) ==
    CASE op = "scope"                       -> ScopeCatch(err)
      [] op = "plan" /\ path = "continue"   -> ContinueCatch
      [] op = "plan" /\ path # "continue"   -> PlanCatch(err)
      [] OTHER                              -> Threw

Goes(to) ==
    /\ pc' = to.pc
    /\ path' = to.path
    /\ outcome' = to.outcome
    /\ result' = to.result

\* ------------------------------------------------------------------------
\* Prompts: the parts of its arguments each stage writes into the prompt
\* ------------------------------------------------------------------------
\* issue.body || 'No description provided'
Description(i) ==
    IF i.bodyLength = 0 THEN <<"No description provided">>
    ELSE <<"body of length ", ToString(i.bodyLength)>>

\* issue.labels.join(', ') || 'none'
LabelsText(i) == IF Len(i.labels) = 0 THEN <<"none">> ELSE i.labels

\* (actionPlan.steps || []).join
StepsText(ap) == IF Has(ap, "steps") THEN ap.steps ELSE <<>>

PromptOf(o, i, sc, ap) ==
    CASE o = "scope" ->
            [stage |-> "issue-scoping", number |-> i.number, title |-> i.title,
             labels |-> LabelsText(i), description |-> Description(i)]
      [] o = "plan" ->
            [stage |-> "action-plan", number |-> i.number, title |-> i.title,
             description |-> Description(i), scope |-> sc.scope,
             complexity |-> sc.complexity]
      [] OTHER ->
            [stage |-> "execution", number |-> i.number, title |-> i.title,
             description |-> Description(i), steps |-> StepsText(ap)]

\* ------------------------------------------------------------------------
\* Stage calls
\* ------------------------------------------------------------------------
BeginCall(o, i, sc, ap, cb) ==
    /\ pc = "idle"
    /\ op' = o /\ issue' = i /\ scopeArg' = sc /\ actionPlan' = ap /\ onStatus' = cb
    /\ UNCHANGED <<route, apiKey, pickedUp, rival, sid, url, now, pollVars, session, histVars>>

\* variant: the credential is not tested, the session request is issued
StartScope_NoKeyTest ==
    \E i \in Issues, cb \in OnStatusKinds :
        /\ BeginCall("scope", i, Null, Null, cb)
        /\ Goes([pc |-> "create", path |-> "fresh", outcome |-> "none",
                 result |-> Null])

\* scopeIssue up to its first await
StartScope ==
    \E i \in Issues, cb \in OnStatusKinds :
        /\ BeginCall("scope", i, Null, Null, cb)
        /\ IF ~apiKey
           THEN Goes([pc |-> "done", path |-> "none", outcome |-> "returned",
                      result |-> fallbackScoping(i)])
           ELSE Goes([pc |-> "create", path |-> "fresh", outcome |-> "none",
                      result |-> Null])

\* generateActionPlan up to its first await
StartPlan ==
    \E i \in Issues, sc \in ScopeArgs, cb \in OnStatusKinds :
        /\ BeginCall("plan", i, sc, Null, cb)
        /\ IF ~apiKey
           THEN Goes([pc |-> "done", path |-> "none", outcome |-> "returned",
                      result |-> fallbackActionPlan(i, sc)])
           ELSE IF Has(sc, "session_id")
           THEN Goes([pc |-> "cont_get", path |-> "continue", outcome |-> "none",
                      result |-> Null])
           ELSE Goes([pc |-> "create", path |-> "fresh", outcome |-> "none",
                      result |-> Null])

\* variant: the credential is not tested, the session request is issued
StartExecute_NoKeyTest ==
    \E i \in Issues, ap \in ActionPlans :
        /\ BeginCall("execute", i, Null, ap, "none")
        /\ Goes([pc |-> "create", path |-> "fresh", outcome |-> "none",
                 result |-> Null])

\* executeActionPlan up to its first await
StartExecute ==
    \E i \in Issues, ap \in ActionPlans :
        /\ BeginCall("execute", i, Null, ap, "none")
        /\ IF ~apiKey
           THEN Goes([pc |-> "done", path |-> "none", outcome |-> "threw",
                      result |-> Null])
           ELSE Goes([pc |-> "create", path |-> "fresh", outcome |-> "none",
                      result |-> Null])

\* entry of pollSession(id, ...) at time t
EnterPoll(t) ==
    /\ start' = t
    /\ entered' = t
    /\ nGet' = 0 /\ nSleep' = 0 /\ status' = Absent
    /\ pollExit' = "running" /\ timeoutAt' = -1
    /\ nCb' = 0 /\ cbStatus' = Absent

\* variant: every stage polls the session it created
PollsAfterCreate_Always(o) == TRUE

\* the stage polls the session it created: scopeIssue and generateActionPlan
\* do, executeActionPlan returns the handle at once
PollsAfterCreate(o) == o # "execute"

\* createSession answers and the stage goes on to its next await
CreateSession ==
    /\ pc = "create"
    /\ nCreate' = nCreate + 1
    /\ prompt' = PromptOf(op, issue, scopeArg, actionPlan)
    /\ \E lat \in Latencies, ok \in BOOLEAN :
        /\ now' = lat
        /\ IF ~ok
           THEN /\ Goes(Catch("error"))
                /\ UNCHANGED <<sid, url, pollVars>>
           ELSE /\ sid' = NewSession.session_id
                /\ url' = NewSession.url
                /\ IF ~PollsAfterCreate(op)
                   THEN /\ Goes(Returned([session_id |-> NewSession.session_id,
                                          session_url |-> NewSession.url,
                                          status |-> "started"]))
                        /\ UNCHANGED pollVars
                   ELSE /\ Goes([pc |-> "poll", path |-> path, outcome |-> "none",
                                 result |-> Null])
                        /\ EnterPoll(lat)
    /\ UNCHANGED <<route, apiKey, pickedUp, rival, callVars, session, nSend, polled, fetched, scopeFetch>>

\* generateActionPlan: getSession(scope.session_id) answers
ContinueGet ==
    /\ pc = "cont_get"
    /\ fetched' = fetched \cup {scopeArg.session_id}
    /\ \E lat \in Latencies, ok \in BOOLEAN, s \in StatusPairs :
        /\ now' = lat
        /\ IF ~ok
           THEN /\ Goes(Catch("error"))
                /\ UNCHANGED scopeFetch
           ELSE /\ scopeFetch' = s
                /\ IF s.status_enum = "blocked"
                   THEN Goes([pc |-> "cont_send", path |-> path, outcome |-> "none",
                              result |-> Null])
                   ELSE Goes(ContinueCatch)
    /\ UNCHANGED <<route, apiKey, pickedUp, rival, callVars, sid, url, pollVars, session, nCreate, nSend,
                   polled, prompt>>

\* generateActionPlan: sendMessage(scope.session_id, ...) answers
ContinueSend ==
    /\ pc = "cont_send"
    /\ nSend' = nSend + 1
    /\ \E lat \in Latencies, ok \in BOOLEAN :
        /\ now' = lat
        /\ IF ~ok
           THEN /\ Goes(Catch("error"))
                /\ UNCHANGED <<sid, url, pollVars>>
           ELSE /\ Goes([pc |-> "poll", path |-> path, outcome |-> "none",
                         result |-> Null])
                /\ sid' = scopeArg.session_id
                /\ url' = scopeArg.session_url
                /\ EnterPoll(lat)
    /\ UNCHANGED <<route, apiKey, pickedUp, rival, callVars, session, nCreate, polled, fetched, prompt,
                   scopeFetch>>

\* ------------------------------------------------------------------------
\* pollSession
\* ------------------------------------------------------------------------
\* variant: the ceiling is counted from the issue of the request that
\* preceded the poll (the session's creation)
WithinCeiling_FromRequest == now < MAX_POLL_TIME

\* the loop condition
\* while (Date.now() - start < MAX_POLL_TIME)
WithinCeiling == now - start < MAX_POLL_TIME

\* variant: expired is not a stopping status
IsStopping_NoExpired(st) == st = "finished" \/ st = "blocked"

\* variant: every status but running ends the loop
IsStopping_AllButRunning(st) == st # "running"

\* the test that ends the loop
IsStopping(st) == st = "finished" \/ st = "blocked" \/ st = "expired"

\* variant: the callback runs after the stopping test, on the ticks that go on
CallbackOnTick_AfterStopTest(st) == onStatus # "none" /\ ~IsStopping(st)

\* the caller's callback is invoked on a tick that fetched status st:
\* before the stopping test, whenever the caller passed one
CallbackOnTick(st) == onStatus # "none"

\* what getSession can answer for the session polled.  A scope session
\* that was sent the follow-up stays as the plan stage fetched it (blocked,
\* with the scope stage's output) until the agent takes the message up
Unanswered == path = "continue" /\ ~pickedUp

SessionAnswers == IF Unanswered THEN {scopeFetch} ELSE StatusPairs

\* the bodies from which the scope stage resolved the scope result sc
ScopeBodies(sc) ==
    {b \in Bodies :
        ScopeResolve(b, issue, sc.session_id, sc.session_url) = sc}

AnswerBodies == IF Unanswered THEN ScopeBodies(scopeArg) ELSE Bodies

\* remote side: the agent takes up the follow-up message while the client
\* is about to poll or polling
AgentPicksUp ==
    /\ pc = "poll" /\ path = "continue"
    /\ ~pickedUp
    /\ pickedUp' = TRUE
    /\ UNCHANGED <<route, apiKey, rival, callVars, pc, path, sid, url, now, pollVars, session,
                   outcome, result, histVars>>

\* one pass of the loop body up to its return or its suspension: getSession
\* answers, the callback runs, the status is tested.  The clock readings of
\* the poll are dropped when pollSession exits.
PollTick ==
    /\ pc = "poll"
    /\ WithinCeiling
    /\ nGet' = nGet + 1
    /\ polled' = polled \cup {sid}
    /\ fetched' = fetched \cup {sid}
    /\ \E lat \in Latencies, ok \in BOOLEAN, s \in SessionAnswers,
          thrown \in CallbackThrows(onStatus) :
        IF ~ok
        THEN /\ Goes(Catch("error"))
             /\ pollExit' = "failed"
             /\ now' = 0 /\ start' = 0 /\ entered' = 0
             /\ UNCHANGED <<status, nCb, cbStatus, session>>
        ELSE /\ status' = StatusOf(s)
             /\ IF CallbackOnTick(StatusOf(s))
                THEN nCb' = nCb + 1 /\ cbStatus' = StatusOf(s)
                ELSE UNCHANGED <<nCb, cbStatus>>
             /\ IF thrown # "no"
                THEN /\ Goes(Catch(thrown))
                     /\ pollExit' = IF thrown = "nullish" THEN "callbackThrewNull"
                                     ELSE "callbackThrewError"
                     /\ now' = 0 /\ start' = 0 /\ entered' = 0
                     /\ UNCHANGED session
                ELSE IF IsStopping(StatusOf(s))
                THEN /\ Goes([pc |-> "resolve", path |-> path,
                              outcome |-> "none", result |-> Null])
                     /\ pollExit' = "returned"
                     /\ now' = 0 /\ start' = 0 /\ entered' = 0
                     /\ session' = [status_enum |-> s.status_enum,
                                    status |-> s.status, fetch |-> nGet + 1]
                ELSE /\ Goes([pc |-> "sleep", path |-> path,
                              outcome |-> "none", result |-> Null])
                     /\ now' = now + lat
                     /\ UNCHANGED <<start, entered, pollExit, session>>
    /\ UNCHANGED <<route, apiKey, pickedUp, rival, callVars, sid, url, nSleep, timeoutAt, nCreate, nSend,
                   prompt, scopeFetch>>

\* the timer of the suspension fires and the loop condition is evaluated next
PollSleep ==
    /\ pc = "sleep"
    /\ now' = now + POLL_INTERVAL
    /\ nSleep' = nSleep + 1
    /\ pc' = "poll"
    /\ UNCHANGED <<route, apiKey, pickedUp, rival, callVars, path, sid, url, start, entered, nGet, status,
                   pollExit, timeoutAt, nCb, cbStatus, session, outcome, result,
                   histVars>>

\* the loop condition fails: throw new Error('Session polling timed out ...')
PollTimeout ==
    /\ pc = "poll"
    /\ ~WithinCeiling
    /\ Goes(Catch("error"))
    /\ pollExit' = "timeout"
    /\ timeoutAt' = now - entered
    /\ now' = 0 /\ start' = 0 /\ entered' = 0
    /\ UNCHANGED <<route, apiKey, pickedUp, rival, callVars, sid, url, nGet, nSleep, status, nCb,
                   cbStatus, session, histVars>>

\* the stage reads the session pollSession returned; the body of the answer
\* (structured_output, messages) is drawn when it is first read
Resolve ==
    /\ pc = "resolve"
    /\ \E b \in AnswerBodies :
        LET s == [status_enum |-> session.status_enum, status |-> session.status,
                  structured_output |-> b.structured_output,
                  messages |-> b.messages]
        IN  CASE op = "scope" ->
                    /\ session' = s
                    /\ Goes(Returned(ScopeResolve(s, issue, sid, url)))
              [] op = "plan" /\ path = "continue" ->
                    IF ContinueYields(s)
                    THEN /\ session' = s
                         /\ Goes(Returned(ContinueResolve(s, scopeArg)))
                    ELSE /\ session' = Null
                         /\ Goes(ContinueCatch)
              [] OTHER ->
                    /\ session' = s
                    /\ Goes(Returned(PlanResolve(s, issue, scopeArg, sid, url)))
    /\ nGet' = 0 /\ nSleep' = 0 /\ status' = Absent
    /\ nCb' = 0 /\ cbStatus' = Absent
    /\ UNCHANGED <<route, apiKey, pickedUp, rival, callVars, sid, url, now, start, entered, pollExit,
                   timeoutAt, histVars>>

\* variant: the client remembers the session of the call that ended
Finish_KeepsSession ==
    /\ pc = "done"
    /\ op' = "idle" /\ issue' = Null /\ scopeArg' = Null /\ actionPlan' = Null
    /\ onStatus' = "none"
    /\ pc' = "idle" /\ path' = "none"
    /\ now' = 0 /\ start' = 0 /\ entered' = 0
    /\ nGet' = 0 /\ nSleep' = 0 /\ status' = Absent
    /\ pollExit' = "none" /\ timeoutAt' = -1 /\ nCb' = 0 /\ cbStatus' = Absent
    /\ session' = Null /\ outcome' = "none" /\ result' = Null
    /\ nCreate' = 0 /\ nSend' = 0 /\ polled' = {} /\ fetched' = {}
    /\ prompt' = Null /\ scopeFetch' = Null
    /\ pickedUp' = FALSE
    /\ UNCHANGED <<route, apiKey, rival, sid, url>>

\* the caller has the outcome; the client is ready for the next call
Finish ==
    /\ pc = "done"
    /\ op' = "idle" /\ issue' = Null /\ scopeArg' = Null /\ actionPlan' = Null
    /\ onStatus' = "none"
    /\ pc' = "idle" /\ path' = "none" /\ sid' = Absent /\ url' = Absent
    /\ now' = 0 /\ start' = 0 /\ entered' = 0
    /\ nGet' = 0 /\ nSleep' = 0 /\ status' = Absent
    /\ pollExit' = "none" /\ timeoutAt' = -1 /\ nCb' = 0 /\ cbStatus' = Absent
    /\ session' = Null /\ outcome' = "none" /\ result' = Null
    /\ nCreate' = 0 /\ nSend' = 0 /\ polled' = {} /\ fetched' = {}
    /\ prompt' = Null /\ scopeFetch' = Null
    /\ pickedUp' = FALSE
    /\ UNCHANGED <<route, apiKey, rival>>

Next ==
    \/ StartScope
    \/ StartPlan
    \/ StartExecute
    \/ CreateSession
    \/ ContinueGet
    \/ ContinueSend
    \/ AgentPicksUp
    \/ PollTick
    \/ PollSleep
    \/ PollTimeout
    \/ Resolve
    \/ Finish

Spec == Init /\ [][Next]_vars

\* ------------------------------------------------------------------------
\* Vocabulary of the properties
\* ------------------------------------------------------------------------
\* a scopeIssue / generateActionPlan call has ended
StageDone == pc = "done" /\ op \in {"scope", "plan"}

\* ... by resolving the session its poll returned
Resolved == StageDone /\ session # Null

\* the session carries a structured_output payload
HasStructured(s) == s.structured_output # Null

\* positions of the agent-authored messages
AgentPositions(s) ==
    {k \in 1..Len(s.messages) :
        s.messages[k].type \in {"tool_output", "assistant", "devin"}}

NoAgentMessage(s) == AgentPositions(s) = {}

\* text of the latest agent-authored message
LastAgentText(s) ==
    s.messages[CHOOSE k \in AgentPositions(s) : \A j \in AgentPositions(s) : j <= k].message

\* the text is one JSON object between two runs of brace-free prose
WrappedObjectAt(text, a, b) ==
    /\ a \in 1..Len(text) /\ b \in 1..Len(text) /\ a < b
    /\ text[a] = "{" /\ text[b] = "}"
    /\ \A k \in 1..Len(text) : (k < a \/ k > b) => text[k] = "w"
    /\ \E k \in 1..Len(text) : k < a \/ k > b
    /\ JSONparse(SubSeq(text, a, b)).kind = "object"

\* the object as returned with the ids of the session the call worked with
WithIds(obj) == Spread([session_id |-> sid, session_url |-> url], obj)

\* the fields of a result other than the session id and URL
Content(r) == [k \in (DOMAIN r) \ {"session_id", "session_url"} |-> r[k]]

Marked(r) == Has(r, "fallback") /\ r.fallback = TRUE

LocalResult ==
    IF op = "scope" THEN fallbackScoping(issue) ELSE fallbackActionPlan(issue, scopeArg)

\* the statuses on which polling stops
AllStopping == {"finished", "blocked", "expired"}

\* ------------------------------------------------------------------------
\* C1: scopeIssue and generateActionPlan never throw to their caller: every
\* call ends by returning a result, whatever the transport answers and
\* whatever the onStatus callback does.
\* ------------------------------------------------------------------------
C1_NeverThrows == StageDone => outcome = "returned"

\* ------------------------------------------------------------------------
\* C2: scope stage, no structured output, last agent message is prose
\* that cannot be parsed: the result is fallbackScoping(issue), marked as
\* fallback.
\* ------------------------------------------------------------------------
C2_Unparsable ==
    /\ Resolved /\ op = "scope"
    /\ ~HasStructured(session)
    /\ ~NoAgentMessage(session)
    /\ LastAgentText(session) # <<>>
    /\ ~JSONparse(extractJson(LastAgentText(session))).ok

C2_HeuristicOnUnparsable ==
    C2_Unparsable =>
        /\ outcome = "returned"
        /\ Content(result) = fallbackScoping(issue)

\* What the code returns in that case: the fixed parse-failure default
\* (scope is the raw message, complexity 5, confidence_score 50, fixed
\* requirements, risks and estimated_time) with the id and URL of the
\* session, without the fallback mark (the defect of C8).
ParseFailureDefaultReturned ==
    C2_Unparsable =>
        /\ outcome = "returned"
        /\ result = WithIds(ParseFailureDefault(LastAgentText(session)))
        /\ ~Has(result, "fallback")

ParseFailureDefaultReturned_Witness ==
    /\ C2_Unparsable
    /\ LastAgentText(session) = <<"w", "w">>
    /\ result.scope = <<"w", "w">>
    /\ result.complexity = 5

\* ------------------------------------------------------------------------
\* C3: when the polled session carries structured output, scopeIssue and
\* generateActionPlan return exactly the fields of that payload plus the
\* session id and URL, whatever the messages contain, and the result bears
\* no fallback mark.
\* ------------------------------------------------------------------------
C3_StructuredFirst ==
    (Resolved /\ HasStructured(session)) =>
        /\ outcome = "returned"
        /\ Content(result) = Content(session.structured_output)
        /\ ~Marked(result)

\* ------------------------------------------------------------------------
\* C4: no structured output and the last agent message is a JSON object
\* between brace-free prose: the result has the fields of that object and
\* is not marked as fallback.
\* ------------------------------------------------------------------------
C4_ExtractedFromProse ==
    (Resolved /\ ~HasStructured(session) /\ ~NoAgentMessage(session)) =>
        \A a, b \in 1..Len(LastAgentText(session)) :
            WrappedObjectAt(LastAgentText(session), a, b) =>
                LET obj == JSONparse(SubSeq(LastAgentText(session), a, b)).obj
                IN  /\ outcome = "returned"
                    /\ Content(result) = Content(obj)
                    /\ ~Marked(result)

\* ------------------------------------------------------------------------
\* C5: neither structured output nor an agent-authored message: scopeIssue
\* returns fallbackScoping(issue) and generateActionPlan returns
\* fallbackActionPlan, each marked as fallback and each with the id and URL
\* of the session that was polled.
\* ------------------------------------------------------------------------
C5_NoAgentMessage ==
    (Resolved /\ ~HasStructured(session) /\ NoAgentMessage(session)) =>
        /\ outcome = "returned"
        /\ result = WithIds(LocalResult)
        /\ Marked(result)
        /\ result.session_id \in polled

C5_Witness ==
    /\ Resolved /\ op = "plan"
    /\ ~HasStructured(session)
    /\ Len(session.messages) = 1
    /\ session.messages[1].type = "user"
    /\ Marked(result)
    /\ result.session_id = "s2"

\* ------------------------------------------------------------------------
\* C6: every result scopeIssue returns has complexity in [1,10] and
\* confidence_score in [1,100].
\* ------------------------------------------------------------------------
C6_ScopeInBounds ==
    (pc = "done" /\ op = "scope" /\ outcome = "returned") =>
        /\ Has(result, "complexity") /\ Has(result, "confidence_score")
        /\ result.complexity \in 1..10
        /\ result.confidence_score \in 1..100

\* ------------------------------------------------------------------------
\* C7: a result marked fallback=true has only locally produced content
\* fields: those of fallbackScoping / fallbackActionPlan (or of the
\* parse-failure default).
\* ------------------------------------------------------------------------
C7_MarkedIsLocal ==
    (StageDone /\ outcome = "returned" /\ Marked(result)) =>
        \/ Content(result) = LocalResult
        \/ /\ Resolved /\ ~NoAgentMessage(session)
           /\ Content(result) = ParseFailureDefault(LastAgentText(session))

\* ------------------------------------------------------------------------
\* C8: every result whose content was produced locally (the heuristic
\* result or the parse-failure default) is marked fallback=true.
\* ------------------------------------------------------------------------
C8_LocalIsMarked ==
    (/\ StageDone /\ outcome = "returned"
     /\ \/ Content(result) = LocalResult
        \/ /\ Resolved /\ ~HasStructured(session) /\ ~NoAgentMessage(session)
           /\ Content(result) = ParseFailureDefault(LastAgentText(session)))
        => Marked(result)

\* ------------------------------------------------------------------------
\* C9: pollSession raises the timeout error only once MAX_POLL_TIME has
\* elapsed since the loop was entered, and then at once: with the ceiling
\* reached the loop makes no further fetch; a poll that timed out returned
\* no session, and only a tick that observed a stopping status returns one.
\* ------------------------------------------------------------------------
C9_PollTimeout ==
    /\ pollExit = "timeout" => (timeoutAt >= MAX_POLL_TIME /\ session = Null)
    /\ (pc = "poll" /\ now - entered >= MAX_POLL_TIME) =>
           (ENABLED PollTimeout /\ ~ENABLED PollTick)
    /\ (pc = "poll" /\ now - entered < MAX_POLL_TIME) => ~ENABLED PollTimeout
    /\ pc = "resolve" => status \in AllStopping

C9_Witness ==
    /\ pollExit = "timeout"
    /\ nGet = MAX_POLL_TIME \div POLL_INTERVAL
    /\ nSleep = nGet
    /\ status = "running"
    /\ timeoutAt = MAX_POLL_TIME

\* ------------------------------------------------------------------------
\* C10: when tick k is the first to observe a stopping status, pollSession
\* returns the session fetched on tick k after k getSession calls and k-1
\* suspensions, and neither a fetch nor a suspension follows.
\* ------------------------------------------------------------------------
C10_ReturnsOnStopTick ==
    /\ pc = "poll" => nGet = nSleep
    /\ pc = "sleep" => (nGet = nSleep + 1 /\ status \notin AllStopping)
    /\ pc = "resolve" =>
           /\ nGet = nSleep + 1
           /\ status \in AllStopping
           /\ session.fetch = nGet
           /\ StatusOf(session) = status
           /\ ~ENABLED PollTick
           /\ ~ENABLED PollSleep

C10_Witness ==
    /\ pc = "resolve"
    /\ status = "finished"
    /\ nGet = 3
    /\ nSleep = 2
    /\ session.fetch = 3

\* ------------------------------------------------------------------------
\* C11: a tick of pollSession whose fetch succeeded and whose callback
\* returned ends the poll by returning the fetched session exactly when the
\* status it observed is finished, blocked or expired; on every other status
\* (running, or a value the client does not know) the loop suspends and goes
\* on.  No session is returned on a status outside these three.
\* ------------------------------------------------------------------------
TickCompleted ==
    /\ pc = "poll" /\ nGet' = nGet + 1
    /\ pollExit' \notin {"failed", "callbackThrewNull", "callbackThrewError"}

C11_StopOrContinue ==
    [][TickCompleted =>
          IF status' \in AllStopping
          THEN /\ pc' = "resolve" /\ pollExit' = "returned"
               /\ StatusOf(session') = status'
               /\ session'.fetch = nGet'
          ELSE /\ pc' = "sleep" /\ pollExit' = "running"
               /\ session' = session]_vars

C11_Witness ==
    /\ pc = "resolve" /\ pollExit = "returned"
    /\ status = "expired"
    /\ nGet = 2 /\ nSleep = 1

\* ------------------------------------------------------------------------
\* C12: the caller's status callback is invoked once on every poll tick that
\* fetched a status, with that status, the tick that observes the stopping
\* status included, and before pollSession returns the session; a tick whose
\* fetch failed invokes nothing.
\* ------------------------------------------------------------------------
C12_CallbackEveryTick ==
    /\ onStatus = "none" => nCb = 0
    /\ onStatus # "none" =>
        /\ pc = "poll" => nCb = nGet
        /\ pc = "sleep" => (nCb = nGet /\ cbStatus = status)
        /\ pc = "resolve" =>
               /\ nCb = nGet
               /\ cbStatus = status
               /\ cbStatus = StatusOf(session)
        /\ pollExit \in {"callbackThrewNull", "callbackThrewError"} =>
               (nCb = nGet /\ cbStatus = status)
        /\ pollExit = "failed" => nCb = nGet - 1

C12_Witness ==
    /\ pc = "resolve"
    /\ onStatus = "returns"
    /\ nGet = 3 /\ nCb = 3
    /\ status = "blocked" /\ cbStatus = "blocked"

\* the call has issued no request to the transport
NoTransportCall ==
    /\ nCreate = 0 /\ nSend = 0
    /\ fetched = {} /\ polled = {}
    /\ prompt = Null /\ scopeFetch = Null

\* ------------------------------------------------------------------------
\* C13: without an API key executeActionPlan raises its error before any
\* transport call: the call ends by throwing, having issued no
\* createSession, getSession or sendMessage request.
\* ------------------------------------------------------------------------
C13_ExecuteRefusesWithoutKey ==
    (op = "execute" /\ ~apiKey) =>
        /\ pc = "done"
        /\ outcome = "threw" /\ result = Null
        /\ NoTransportCall

C13_Witness ==
    /\ op = "execute" /\ ~apiKey
    /\ pc = "done" /\ outcome = "threw"
    /\ actionPlan = GoodPlan

\* ------------------------------------------------------------------------
\* C14: without an API key scopeIssue and generateActionPlan issue no
\* transport call and return fallbackScoping(issue) and
\* fallbackActionPlan(issue, scope), marked as fallback.
\* ------------------------------------------------------------------------
C14_FallbackOnlyWithoutKey ==
    (op \in {"scope", "plan"} /\ ~apiKey) =>
        /\ pc = "done"
        /\ outcome = "returned"
        /\ result = LocalResult
        /\ Marked(result)
        /\ NoTransportCall

C14_Witness ==
    /\ op = "plan" /\ ~apiKey
    /\ pc = "done" /\ outcome = "returned"
    /\ Has(scopeArg, "session_id")
    /\ Len(result.steps) = 6
    /\ onStatus = "throws"

\* the handle executeActionPlan returns for the session it created
ExecutionHandle ==
    [session_id |-> NewSession.session_id, session_url |-> NewSession.url,
     status |-> "started"]

\* ------------------------------------------------------------------------
\* C15: executeActionPlan never polls or waits: a call that succeeds has
\* issued exactly one createSession, no getSession and no sendMessage, has
\* made no tick and no suspension, and returns the handle of the created
\* session with status "started", whatever that session does afterwards.
\* ------------------------------------------------------------------------
C15_FireAndForget ==
    op = "execute" =>
        /\ pc \in {"create", "done"}
        /\ fetched = {} /\ polled = {} /\ nSend = 0
        /\ nGet = 0 /\ nSleep = 0 /\ pollExit = "none"
        /\ (pc = "done" /\ outcome = "returned") =>
               /\ nCreate = 1
               /\ result = ExecutionHandle
               /\ prompt.steps = StepsText(actionPlan)

C15_Witness ==
    /\ op = "execute" /\ pc = "done" /\ outcome = "returned"
    /\ nCreate = 1
    /\ result.status = "started" /\ result.session_id = "s2"
    /\ actionPlan = GoodPlan

\* executeActionPlan has ended after its createSession request failed (no
\* session id was received)
ExecuteCreateFailed ==
    /\ op = "execute" /\ pc = "done"
    /\ nCreate = 1 /\ sid = Absent

\* ------------------------------------------------------------------------
\* C16: when createSession fails during executeActionPlan the failure
\* reaches the caller: the call ends by throwing and returns neither an
\* execution handle nor a locally generated substitute.
\* ------------------------------------------------------------------------
C16_ExecuteDoesNotDegrade ==
    /\ ExecuteCreateFailed => (outcome = "threw" /\ result = Null)
    /\ (op = "execute" /\ pc = "done" /\ outcome = "returned") =>
           (sid = NewSession.session_id /\ result.session_id = sid)

C16_Witness ==
    /\ ExecuteCreateFailed
    /\ apiKey
    /\ outcome = "threw"
    /\ prompt # Null

\* the plan call has the answer to its fetch of the scope session, or never
\* fetches it
PlanDecided == op = "plan" /\ apiKey /\ pc # "cont_get"

\* the scope result carries a session id and that session, when fetched, was
\* in status blocked
ScopeSessionBlocked ==
    /\ Has(scopeArg, "session_id")
    /\ scopeFetch # Null
    /\ StatusOf(scopeFetch) = "blocked"

\* the follow-up message has been issued to the scope session
FollowUpSent == pc = "cont_send" \/ nSend > 0

\* the prompt of the new session embeds the ticket and the scope context
EmbedsTicketAndScope(p) ==
    /\ p.stage = "action-plan"
    /\ p.number = issue.number /\ p.title = issue.title
    /\ p.description = Description(issue)
    /\ p.scope = scopeArg.scope /\ p.complexity = scopeArg.complexity

\* ------------------------------------------------------------------------
\* C17: generateActionPlan sends the follow-up message to the scope
\* session if and only if the scope result carries a session id and that
\* session, when fetched, is in status blocked; in every other case it sends
\* nothing and creates a new session whose prompt embeds the ticket and the
\* scope context.
\* ------------------------------------------------------------------------
C17_FollowUpIffBlocked ==
    PlanDecided =>
        /\ FollowUpSent <=> ScopeSessionBlocked
        /\ ~ScopeSessionBlocked =>
               /\ nSend = 0
               /\ pc = "create" \/ nCreate = 1
               /\ nCreate = 1 => EmbedsTicketAndScope(prompt)

\* ------------------------------------------------------------------------
\* C18: the continuation of the scope session is optional.  Every step of a
\* plan call that is in its continuation either stays in the continuation,
\* or returns the plan the continued session produced, or goes on to the
\* request for a new session: fetch failure, send failure, poll failure,
\* poll timeout, a throwing callback and a session without structured
\* output or parsable message all lead to the new session, never to an
\* exception or to the local plan.  The new session's prompt carries the
\* full context.
\* ------------------------------------------------------------------------
InContinuation == op = "plan" /\ path = "continue" /\ pc # "done"

C18_ContinuationOptional ==
    /\ [][InContinuation =>
            \/ /\ path' = "continue" /\ outcome' = "none"
               /\ pc' \in {"cont_send", "poll", "sleep", "resolve"}
            \/ /\ path' = "continue" /\ pc' = "done" /\ outcome' = "returned"
               /\ session' # Null
               /\ ContinueYields(session')
               /\ result' = ContinueResolve(session', scopeArg)
            \/ /\ path' = "fresh" /\ pc' = "create" /\ outcome' = "none"
               /\ nCreate' = 0]_vars
    /\ [](op = "plan" /\ path = "fresh" /\ nCreate = 1 =>
              EmbedsTicketAndScope(prompt))

C18_Witness ==
    /\ op = "plan" /\ path = "fresh" /\ pc = "poll"
    /\ Has(scopeArg, "session_id")
    /\ nSend = 1 /\ nCreate = 1
    /\ polled = {"s1", "s2"}
    /\ prompt.scope = scopeArg.scope

\* the stage has ended after the request for its new session failed
FreshCreateFailed ==
    /\ StageDone /\ apiKey /\ path = "fresh"
    /\ nCreate = 1 /\ sid # NewSession.session_id

\* the stage has ended after the poll of its new session failed on a fetch
\* or ran into the time ceiling
FreshPollFailed ==
    /\ StageDone /\ path = "fresh"
    /\ nCreate = 1 /\ sid = NewSession.session_id
    /\ pollExit \in {"failed", "timeout"}

\* ------------------------------------------------------------------------
\* C19: when createSession fails, a getSession of the poll fails or the
\* poll times out in a stage working with a new session, scopeIssue returns
\* exactly fallbackScoping(issue) and generateActionPlan returns exactly
\* fallbackActionPlan(issue, scope), marked as fallback; nothing is raised.
\* ------------------------------------------------------------------------
C19_FallbackOnTransportError ==
    (FreshCreateFailed \/ FreshPollFailed) =>
        /\ outcome = "returned"
        /\ result = LocalResult
        /\ Marked(result)
        /\ ~Has(result, "session_id")

C19_Witness ==
    /\ FreshPollFailed
    /\ op = "plan"
    /\ pollExit = "timeout" /\ timeoutAt >= MAX_POLL_TIME
    /\ outcome = "returned"
    /\ Len(result.steps) = 6

\* ------------------------------------------------------------------------
\* fallbackScoping on its own: the tickets it is applied to
\* ------------------------------------------------------------------------
MaxLabels == 4

LabelNames == {"bug", "enhancement", "complex", "ui"}

\* every list of at most MaxLabels labels, repetitions included
LabelLists == UNION {[1..n -> LabelNames] : n \in 0..MaxLabels}

\* no body, a body of exactly 1000 characters, longer bodies
BodyLengths == {0, 1000, 1001, 1200}

Tickets ==
    {[number |-> 42, title |-> "Fix crash", bodyLength |-> b, labels |-> l] :
        b \in BodyLengths, l \in LabelLists}

InitScore ==
    /\ apiKey \in BOOLEAN
    /\ op = "idle" /\ issue \in Tickets /\ scopeArg = Null /\ actionPlan = Null
    /\ onStatus = "none"
    /\ pc = "idle" /\ path = "none" /\ sid = Absent /\ url = Absent
    /\ now = 0 /\ start = 0 /\ entered = 0 /\ nGet = 0 /\ nSleep = 0 /\ status = Absent
    /\ pollExit = "none" /\ timeoutAt = -1 /\ nCb = 0 /\ cbStatus = Absent
    /\ session = Null /\ outcome = "none" /\ result = Null
    /\ nCreate = 0 /\ nSend = 0 /\ polled = {} /\ fetched = {}
    /\ prompt = Null /\ scopeFetch = Null
    /\ pickedUp = FALSE /\ rival = "idle" /\ route = NoRequest

\* fallbackScoping(issue) is called and returns; the caller keeps the result
\* of the call before it for comparison until this one returns
Score ==
    /\ pc \in {"idle", "between"}
    /\ result' = fallbackScoping(issue)
    /\ outcome' = "returned"
    /\ pc' = "done"
    /\ UNCHANGED <<route, apiKey, pickedUp, rival, callVars, path, sid, url, now, pollVars, session, histVars>>

\* what can happen between two calls of fallbackScoping with the same
\* ticket: time passes, ...
Elapse ==
    /\ pc \in {"done", "between"}
    /\ now = 0
    /\ now' = MAX_POLL_TIME
    /\ pc' = "between"
    /\ UNCHANGED <<route, apiKey, pickedUp, rival, callVars, path, sid, url, pollVars, session, outcome,
                   result, histVars>>

\* ... the next call is made on a client constructed with the other
\* credential setting, ...
Reconfigure ==
    /\ pc \in {"done", "between"}
    /\ apiKey' = ~apiKey
    /\ pc' = "between"
    /\ UNCHANGED <<route, pickedUp, rival, callVars, path, sid, url, now, pollVars, session, outcome,
                   result, histVars>>

\* ... stage calls have run and left a polled session behind
OtherCalls ==
    /\ pc \in {"done", "between"}
    /\ session = Null
    /\ session' = [status_enum |-> "finished", status |-> Absent,
                   structured_output |-> GoodScope, messages |-> <<>>]
    /\ sid' = NewSession.session_id /\ url' = NewSession.url
    /\ pc' = "between"
    /\ UNCHANGED <<route, apiKey, pickedUp, rival, callVars, path, now, pollVars, outcome, result, histVars>>

NextScore ==
    \/ Score
    \/ Elapse
    \/ Reconfigure
    \/ OtherCalls

SpecScore == InitScore /\ [][NextScore]_vars

\* ------------------------------------------------------------------------
\* C20: for every ticket, fallbackScoping returns complexity in [1,10],
\* confidence_score in [20,100], and confidence_score equal to
\* max(20, 100 - 8 * complexity).
\* ------------------------------------------------------------------------
C20_HeuristicInBounds ==
    pc = "done" =>
        /\ result.complexity \in 1..10
        /\ result.confidence_score \in 20..100
        /\ result.confidence_score =
               (IF 100 - 8 * result.complexity > 20
                THEN 100 - 8 * result.complexity ELSE 20)

C20_Witness ==
    /\ pc = "done"
    /\ issue.bodyLength = 1200
    /\ Len(issue.labels) = 4
    /\ result.complexity = 10
    /\ result.confidence_score = 20

\* the score as the specification states it, for ticket t
Carries(t, label) == \E k \in DOMAIN t.labels : t.labels[k] = label

SpecifiedSum(t) ==
    3 + (IF t.bodyLength > 1000 THEN 2 ELSE 0)
      + (IF Len(t.labels) > 3 THEN 1 ELSE 0)
      - (IF Carries(t, "bug") THEN 1 ELSE 0)
      + (IF Carries(t, "enhancement") THEN 1 ELSE 0)
      + (IF Carries(t, "complex") THEN 3 ELSE 0)

SpecifiedComplexity(t) ==
    IF SpecifiedSum(t) < 1 THEN 1
    ELSE IF SpecifiedSum(t) > 10 THEN 10
    ELSE SpecifiedSum(t)

\* ------------------------------------------------------------------------
\* C21: fallbackScoping returns complexity = the sum 3, +2 for a body longer
\* than 1000 characters, +1 for more than 3 labels, -1 for label bug, +1 for
\* label enhancement, +3 for label complex, clamped to [1,10], and
\* estimated_time "<2*complexity> hours"; a ticket with a body of 1200
\* characters and labels [bug, complex] gets complexity 7, confidence 44 and
\* "14 hours".
\* ------------------------------------------------------------------------
C21_SpecifiedScore ==
    pc = "done" =>
        /\ result.complexity = SpecifiedComplexity(issue)
        /\ result.estimated_time = <<ToString(2 * result.complexity), " hours">>
        /\ (issue.bodyLength = 1200 /\ issue.labels = <<"bug", "complex">>) =>
               /\ result.complexity = 7
               /\ result.confidence_score = 44
               /\ result.estimated_time = <<"14", " hours">>

C21_Witness ==
    /\ pc = "done"
    /\ issue.bodyLength = 1200
    /\ issue.labels = <<"bug", "complex">>
    /\ result.complexity = 7
    /\ result.confidence_score = 44
    /\ result.estimated_time = <<"14", " hours">>

\* ------------------------------------------------------------------------
\* extractJson on its own: the texts it is applied to
\* ------------------------------------------------------------------------
MaxText == 4

TextTokens == {"{", "}", "w"}

\* every text of at most MaxText tokens
Texts == UNION {[1..n -> TextTokens] : n \in 0..MaxText}

\* a finished session whose last message is the text
SessionSaying(type, text) ==
    [status_enum |-> "finished", status |-> Absent, structured_output |-> Null,
     messages |-> <<Msg(type, text)>>]

InitExtract ==
    /\ apiKey = TRUE
    /\ op = "idle" /\ issue = Null /\ scopeArg = Null /\ actionPlan = Null
    /\ onStatus = "none"
    /\ pc = "idle" /\ path = "none" /\ sid = Absent /\ url = Absent
    /\ now = 0 /\ start = 0 /\ entered = 0 /\ nGet = 0 /\ nSleep = 0 /\ status = Absent
    /\ pollExit = "none" /\ timeoutAt = -1 /\ nCb = 0 /\ cbStatus = Absent
    /\ session \in {SessionSaying("devin", t) : t \in Texts}
    /\ outcome = "none" /\ result = Null
    /\ nCreate = 0 /\ nSend = 0 /\ polled = {} /\ fetched = {}
    /\ prompt = Null /\ scopeFetch = Null
    /\ pickedUp = FALSE /\ rival = "idle" /\ route = NoRequest

\* extractJson(text) is called on the message text and returns
Extract ==
    /\ pc = "idle"
    /\ result' = [text |-> extractJson(session.messages[1].message)]
    /\ outcome' = "returned"
    /\ pc' = "done"
    /\ UNCHANGED <<route, apiKey, pickedUp, rival, callVars, path, sid, url, now, pollVars, session, histVars>>

NextExtract == Extract

SpecExtract == InitExtract /\ [][NextExtract]_vars

\* positions of the braces in text t
OpenAt(t) == {k \in 1..Len(t) : t[k] = "{"}
CloseAt(t) == {k \in 1..Len(t) : t[k] = "}"}

\* some "{" of t is followed later by a "}"
HasBracePair(t) == \E i \in OpenAt(t), j \in CloseAt(t) : i < j

FirstOpen(t) == CHOOSE i \in OpenAt(t) : \A k \in OpenAt(t) : i <= k
LastClose(t) == CHOOSE j \in CloseAt(t) : \A k \in CloseAt(t) : k <= j

\* ------------------------------------------------------------------------
\* C23: extractJson(text) is the span of text from its first "{" to the
\* last "}" after it, without depth balancing, and is text itself when no
\* "{" of text is followed by a "}".
\* ------------------------------------------------------------------------
C23_GreedySpan ==
    pc = "done" =>
        LET t == session.messages[1].message
        IN  IF HasBracePair(t)
            THEN result.text = SubSeq(t, FirstOpen(t), LastClose(t))
            ELSE result.text = t

C23_Witness ==
    /\ pc = "done"
    /\ session.messages[1].message = <<"w", "{", "}", "}">>
    /\ result.text = <<"{", "}", "}">>

\* nothing of an earlier call is left on the client
NothingLeftBehind ==
    /\ op = "idle" /\ issue = Null /\ scopeArg = Null /\ actionPlan = Null
    /\ onStatus = "none" /\ path = "none" /\ sid = Absent /\ url = Absent
    /\ now = 0 /\ start = 0 /\ entered = 0 /\ nGet = 0 /\ nSleep = 0
    /\ status = Absent /\ pollExit = "none" /\ timeoutAt = -1
    /\ nCb = 0 /\ cbStatus = Absent
    /\ session = Null /\ outcome = "none" /\ result = Null
    /\ NoTransportCall
    /\ ~pickedUp

\* ------------------------------------------------------------------------
\* C24: no stage operation changes shared state.  No step changes the
\* client's credential; while a call runs, the caller's ticket, scope and
\* action plan stay as they were handed in; and between calls the client
\* holds nothing of the calls made before, so a call starts from the same
\* state whatever preceded it.
\* ------------------------------------------------------------------------
C24_NoSharedState ==
    /\ [][/\ apiKey' = apiKey
          /\ (pc # "idle" /\ pc' # "idle") =>
                 (issue' = issue /\ scopeArg' = scopeArg /\ actionPlan' = actionPlan)]_vars
    /\ [](pc = "idle" => NothingLeftBehind)

C24_Witness ==
    /\ pc = "done" /\ op = "plan" /\ outcome = "returned"
    /\ path = "continue" /\ nSend = 1
    /\ Has(scopeArg, "session_id")
    /\ scopeArg \in ScopeArgs /\ issue \in Issues

\* ------------------------------------------------------------------------
\* C25: plan stage on a new session, no structured output and a last agent
\* message that cannot be parsed as JSON: generateActionPlan returns the
\* six-step plan of fallbackActionPlan, marked as fallback, and that plan is
\* the same for every ticket and every scope.
\* ------------------------------------------------------------------------
C25_PlanUnparsable ==
    /\ Resolved /\ op = "plan" /\ path = "fresh"
    /\ ~HasStructured(session)
    /\ ~NoAgentMessage(session)
    /\ ~JSONparse(extractJson(LastAgentText(session))).ok

C25_PlanFallbackOnUnparsable ==
    C25_PlanUnparsable =>
        /\ outcome = "returned"
        /\ Content(result) = fallbackActionPlan(issue, scopeArg)
        /\ Marked(result)
        /\ Len(result.steps) = 6
        /\ \A i \in Issues, sc \in ScopeArgs :
               Content(result) = fallbackActionPlan(i, sc)

C25_Witness ==
    /\ C25_PlanUnparsable
    /\ LastAgentText(session) = <<"w", "w">>
    /\ result.session_id = "s2"
    /\ Len(result.steps) = 6
    /\ result.fallback = TRUE

\* ------------------------------------------------------------------------
\* getLastDevinMessage on its own: the sessions it is applied to
\* ------------------------------------------------------------------------
MaxMessages == 3

MessageTypes == {"user", "devin", "assistant", "tool_output", "system"}

\* the k-th message of a conversation has a text of its own
TextNo(k) == <<"w", ToString(k)>>

\* every conversation of at most MaxMessages messages, by the types of its
\* messages in conversation order
Conversations ==
    UNION {{[k \in 1..n |-> Msg(types[k], TextNo(k))] : types \in [1..n -> MessageTypes]} :
              n \in 0..MaxMessages}

\* a session answer that has no messages field
SessionWithoutMessages ==
    [status_enum |-> "finished", status |-> Absent, structured_output |-> Null]

SessionsRead ==
    {[status_enum |-> "finished", status |-> Absent, structured_output |-> Null,
      messages |-> c] : c \in Conversations} \cup {SessionWithoutMessages}

InitLast ==
    /\ apiKey = TRUE
    /\ op = "idle" /\ issue = Null /\ scopeArg = Null /\ actionPlan = Null
    /\ onStatus = "none"
    /\ pc = "idle" /\ path = "none" /\ sid = Absent /\ url = Absent
    /\ now = 0 /\ start = 0 /\ entered = 0 /\ nGet = 0 /\ nSleep = 0 /\ status = Absent
    /\ pollExit = "none" /\ timeoutAt = -1 /\ nCb = 0 /\ cbStatus = Absent
    /\ session \in SessionsRead
    /\ outcome = "none" /\ result = Null
    /\ nCreate = 0 /\ nSend = 0 /\ polled = {} /\ fetched = {}
    /\ prompt = Null /\ scopeFetch = Null
    /\ pickedUp = FALSE /\ rival = "idle" /\ route = NoRequest

\* getLastDevinMessage(session) is called and returns
Last ==
    /\ pc = "idle"
    /\ result' = [message |-> getLastDevinMessage(session)]
    /\ outcome' = "returned"
    /\ pc' = "done"
    /\ UNCHANGED <<route, apiKey, pickedUp, rival, callVars, path, sid, url, now, pollVars, session, histVars>>

NextLast == Last

SpecLast == InitLast /\ [][NextLast]_vars

\* the conversation of the session read, empty when it has none
Conversation == IF "messages" \in DOMAIN session THEN session.messages ELSE <<>>

AgentAuthored == {k \in 1..Len(Conversation) :
                     Conversation[k].type \in {"tool_output", "assistant", "devin"}}

\* ------------------------------------------------------------------------
\* C26: getLastDevinMessage returns the text of the latest agent-authored
\* message (type tool_output, assistant or devin) in conversation order,
\* whatever messages of other authors follow it, and null when the session
\* has no messages or no agent-authored one.
\* ------------------------------------------------------------------------
C26_LatestAgentMessage ==
    pc = "done" =>
        IF AgentAuthored = {}
        THEN result.message = NullText
        ELSE \E k \in AgentAuthored :
                /\ \A j \in AgentAuthored : j <= k
                /\ result.message = Conversation[k].message

C26_Witness ==
    /\ pc = "done"
    /\ Len(Conversation) = 3
    /\ Conversation[1].type = "devin"
    /\ Conversation[2].type = "tool_output"
    /\ Conversation[3].type = "user"
    /\ result.message = TextNo(2)

\* ------------------------------------------------------------------------
\* C27: a plan returned by the continuation is a payload the remote agent
\* produced after it received the follow-up message: however the client's
\* first poll interleaves with the agent taking the message up, the session
\* the continuation resolves is never the one the scope stage left.
\* ------------------------------------------------------------------------
ContinuationReturned ==
    /\ op = "plan" /\ path = "continue"
    /\ pc = "done" /\ outcome = "returned"

C27_PlanIsAfterFollowUp == ContinuationReturned => pickedUp

\* ------------------------------------------------------------------------
\* Two generateActionPlan calls in flight with the same scope result (two
\* plan requests of the dashboard carrying the same analysis).  The first
\* is the call of the variables above; of the second only the continuation
\* up to its follow-up message is followed.
\* ------------------------------------------------------------------------
InitTwoPlans == Init /\ apiKey = TRUE

\* the second call starts while the first is under way
RivalStart ==
    /\ rival = "idle"
    /\ op = "plan" /\ pc # "done"
    /\ Has(scopeArg, "session_id")
    /\ rival' = "cont_get"
    /\ UNCHANGED <<route, apiKey, pickedUp, callVars, pc, path, sid, url, now, pollVars,
                   session, outcome, result, histVars>>

\* its getSession(scope.session_id) answers
RivalGet ==
    /\ rival = "cont_get"
    /\ \E ok \in BOOLEAN, s \in StatusPairs :
        rival' = IF ok /\ s.status_enum = "blocked" THEN "cont_send" ELSE "create"
    /\ UNCHANGED <<route, apiKey, pickedUp, callVars, pc, path, sid, url, now, pollVars,
                   session, outcome, result, histVars>>

\* its sendMessage(scope.session_id, ...) answers
RivalSend ==
    /\ rival = "cont_send"
    /\ \E ok \in BOOLEAN :
        rival' = IF ok THEN "poll" ELSE "create"
    /\ UNCHANGED <<route, apiKey, pickedUp, callVars, pc, path, sid, url, now, pollVars,
                   session, outcome, result, histVars>>

NextTwoPlans ==
    \/ StartPlan
    \/ ContinueGet
    \/ ContinueSend
    \/ RivalStart
    \/ RivalGet
    \/ RivalSend

SpecTwoPlans == InitTwoPlans /\ [][NextTwoPlans]_vars

\* calls whose follow-up message the scope session has accepted and which
\* go on to poll it for a plan
FollowUpsAccepted ==
    (IF op = "plan" /\ path = "continue" /\ pc = "poll" THEN 1 ELSE 0)
      + (IF rival = "poll" THEN 1 ELSE 0)

\* ------------------------------------------------------------------------
\* C28: of the generateActionPlan calls that carry the same scope session
\* id, at most one sends the follow-up message to that session and polls it
\* for a plan.
\* ------------------------------------------------------------------------
C28_AtMostOneFollowUp == FollowUpsAccepted <= 1

ScopeResultFields ==
    {"scope", "complexity", "confidence_score", "requirements", "risks",
     "estimated_time"}

\* ------------------------------------------------------------------------
\* C29: every result scopeIssue returns has all six fields of a scope
\* result (scope, complexity, confidence_score, requirements, risks,
\* estimated_time), whatever structured output and whatever message text the
\* session carries.
\* ------------------------------------------------------------------------
C29_ScopeResultComplete ==
    (op = "scope" /\ pc = "done" /\ outcome = "returned") =>
        ScopeResultFields \subseteq DOMAIN result

\* ------------------------------------------------------------------------
\* C30: the session_id and session_url of a scope or plan result are those
\* of the session the call created or continued; no field of the remote
\* payload replaces them.
\* ------------------------------------------------------------------------
C30_IdsOfOwnSession ==
    (StageDone /\ outcome = "returned" /\ Has(result, "session_id")) =>
        /\ result.session_id = sid
        /\ Has(result, "session_url") /\ result.session_url = url

\* the plan stage has fetched the scope session and taken its decision
ScopeSessionFetched == op = "plan" /\ scopeFetch # Null /\ pc # "cont_get"

\* pollSession would classify the fetched response as blocked
PollSeesBlocked == StatusOf(scopeFetch) = "blocked"

\* ------------------------------------------------------------------------
\* C31: the poll loop and the plan stage agree on what a blocked session
\* is.  Whatever field carries the status of the fetched scope session
\* (status_enum, status, or both), generateActionPlan attempts the
\* continuation exactly when pollSession would classify that response as
\* blocked.
\* ------------------------------------------------------------------------
C31_AgreeOnBlocked ==
    ScopeSessionFetched => (FollowUpSent <=> PollSeesBlocked)

\* the sessions a stage call may poll: the one it created and, for the plan
\* stage, the one named by the scope result it was given
OwnSessions ==
    (IF nCreate > 0 THEN {NewSession.session_id} ELSE {})
    \cup (IF op = "plan" /\ Has(scopeArg, "session_id")
          THEN {scopeArg.session_id} ELSE {})

\* ------------------------------------------------------------------------
\* C32: bounded session creation.  One scopeIssue call requests at most
\* one new session; one generateActionPlan call requests at most one, and
\* none when the continuation returns the plan; neither call polls a
\* session other than the one it created or the one named by the scope
\* result it was given.
\* ------------------------------------------------------------------------
C32_BoundedCreation ==
    op \in {"scope", "plan"} =>
        /\ nCreate <= 1
        /\ ContinuationReturned => nCreate = 0
        /\ polled \subseteq OwnSessions

C32_Witness ==
    /\ op = "plan" /\ pc = "done" /\ outcome = "returned"
    /\ path = "fresh" /\ nSend = 1 /\ nCreate = 1
    /\ polled = {scopeArg.session_id, NewSession.session_id}

\* ------------------------------------------------------------------------
\* Termination.  The steps of a running call are taken by the client and
\* by the transport, and each of them completes: a request that has been
\* issued is answered (with a response or with a failure), a timer that has
\* been set fires, code that is ready to run is run.  Starting a call and
\* taking its result are the caller's steps and carry no such assumption,
\* nor does the remote agent's picking up of a message.
\* ------------------------------------------------------------------------
CallsComplete ==
    /\ WF_vars(CreateSession)
    /\ WF_vars(ContinueGet)
    /\ WF_vars(ContinueSend)
    /\ WF_vars(PollTick)
    /\ WF_vars(PollSleep)
    /\ WF_vars(PollTimeout)
    /\ WF_vars(Resolve)

\* The calls that poll, scopeIssue and generateActionPlan, on one ticket
\* (the ticket takes no part in the loop's control).
PolledTicket == CHOOSE i \in Issues : i.number = 42

NextTerminates ==
    \/ StartScope /\ issue' = PolledTicket
    \/ StartPlan /\ issue' = PolledTicket
    \/ CreateSession
    \/ ContinueGet
    \/ ContinueSend
    \/ AgentPicksUp
    \/ PollTick
    \/ PollSleep
    \/ PollTimeout
    \/ Resolve
    \/ Finish

SpecTerminates == Init /\ [][NextTerminates]_vars /\ CallsComplete

\* the most getSession calls one pollSession can issue
MaxFetches == MAX_POLL_TIME \div POLL_INTERVAL

InPollSession == pc \in {"poll", "sleep"}

StageRunning == op \in {"scope", "plan"} /\ pc # "done"

\* how a pollSession that has ended ended: by returning a session, by
\* propagating a getSession failure, by raising the timeout
SpecifiedExits == {"returned", "failed", "timeout"}

\* ... or by propagating what the status callback threw
CallbackExits == {"callbackThrewNull", "callbackThrewError"}

PollEnded == pollExit \notin {"none", "running"}

\* ------------------------------------------------------------------------
\* C33: pollSession always terminates.  When every getSession call
\* completes and the clock advances by the interval between ticks, the loop
\* ends by returning a session, by propagating a getSession failure or by
\* raising the timeout, after at most 60 getSession calls, and so
\* scopeIssue and generateActionPlan eventually return.
\* ------------------------------------------------------------------------
C33_EndsInThreeWays ==
    /\ [](nGet <= MaxFetches)
    /\ [](PollEnded => pollExit \in SpecifiedExits)
    /\ InPollSession ~> ~InPollSession
    /\ StageRunning ~> (pc = "done" /\ outcome = "returned")

\* What does hold: counting the exit taken when the status callback
\* throws, every poll ends after at most 60 getSession calls and every
\* stage call ends, by returning or by rejecting.
PollTerminates ==
    /\ [](nGet <= MaxFetches)
    /\ [](PollEnded => pollExit \in SpecifiedExits \cup CallbackExits)
    /\ [](pollExit \in CallbackExits => onStatus = "throws")
    /\ InPollSession ~> ~InPollSession
    /\ StageRunning ~> (pc = "done")

PollTerminates_Witness ==
    /\ op = "plan" /\ pc = "done" /\ outcome = "returned"
    /\ pollExit = "timeout"
    /\ nGet = MaxFetches /\ nSleep = MaxFetches

\* ------------------------------------------------------------------------
\* The dashboard's execute route, POST /api/issues/:number/execute.  The
\* handler fetches the ticket, reads actionPlan from the request body,
\* calls executeActionPlan on the dashboard's client, posts the comment and
\* answers; everything it throws is answered with status 500.
\* ------------------------------------------------------------------------
clientVars == <<apiKey, callVars, pc, path, sid, url, now, pollVars, session,
                outcome, result, histVars, pickedUp, rival>>

\* req.body.actionPlan: a plan with steps, a plan without, no plan
RequestPlans == ActionPlans \cup {Null}

Answer(code, posted) ==
    [route EXCEPT !.pc = "answered", !.http = code, !.comment = posted]

\* a request arrives: req.params.number and req.body
RouteRequest ==
    /\ route.pc \in {"idle", "answered"}
    /\ pc = "idle"
    /\ \E n \in {i.number : i \in Issues}, b \in RequestPlans :
        route' = [pc |-> "getIssue", number |-> n, issue |-> Null, body |-> b,
                  http |-> 0, comment |-> Null]
    /\ UNCHANGED clientVars

\* githubClient.getIssue(req.params.number) answers; if (!actionPlan) return res.status(400)
RouteGetIssue ==
    /\ route.pc = "getIssue"
    /\ \E ok \in BOOLEAN, i \in {t \in Issues : t.number = route.number} :
        IF ~ok
        THEN route' = Answer(500, Null)
        ELSE IF route.body = Null
        THEN route' = [Answer(400, Null) EXCEPT !.issue = i]
        ELSE route' = [route EXCEPT !.pc = "execute", !.issue = i]
    /\ UNCHANGED clientVars

\* this.devinClient.executeActionPlan(issue, actionPlan) is called
RouteExecute ==
    /\ route.pc = "execute"
    /\ StartExecute
    /\ issue' = route.issue
    /\ actionPlan' = route.body

\* variant: the comment is posted whether or not the execution succeeded
RouteResume_CommentsAnyway ==
    /\ route.pc = "execute"
    /\ pc = "done"
    /\ route' = [route EXCEPT !.pc = "comment"]
    /\ UNCHANGED clientVars

\* the await of executeActionPlan settles
RouteResume ==
    /\ route.pc = "execute"
    /\ pc = "done"
    /\ route' = IF outcome = "threw" THEN Answer(500, Null)
                ELSE [route EXCEPT !.pc = "comment"]
    /\ UNCHANGED clientVars

\* result.session_url and result.status as the template literal prints them
Printed(r, f) == IF Has(r, f) THEN r[f] ELSE "undefined"

\* githubClient.addComment answers; res.json(result)
RouteComment ==
    /\ route.pc = "comment"
    /\ \E ok \in BOOLEAN :
        route' = IF ok
                 THEN Answer(200, [number |-> route.issue.number,
                                   session |-> Printed(result, "session_url"),
                                   status |-> Printed(result, "status"),
                                   steps |-> StepsText(route.body)])
                 ELSE Answer(500, Null)
    /\ UNCHANGED clientVars

\* the client's call is over once the request is answered
RouteFinish ==
    /\ route.pc = "answered"
    /\ Finish

NextExecuteRoute ==
    \/ RouteRequest
    \/ RouteGetIssue
    \/ RouteExecute
    \/ CreateSession
    \/ RouteResume
    \/ RouteComment
    \/ RouteFinish

SpecExecuteRoute == Init /\ [][NextExecuteRoute]_vars

\* executeActionPlan has returned a session handle to the handler
HandleReturned ==
    /\ op = "execute" /\ pc = "done" /\ outcome = "returned"
    /\ Has(result, "session_id") /\ result.status = "started"

CommentPosted == route.comment # Null

AnsweredWithoutPlan == route.pc = "answered" /\ route.body = Null

ExecutionFailed == route.pc = "answered" /\ op = "execute" /\ outcome = "threw"

\* ------------------------------------------------------------------------
\* C34: in the execute route the comment announcing the session is posted
\* only after executeActionPlan has returned a session handle.  A request
\* without an action plan is answered 400, with no session created and no
\* comment posted; a failed execution is answered 500 with no comment
\* posted.
\* ------------------------------------------------------------------------
C34_CommentAfterHandle ==
    /\ route.pc = "comment" => HandleReturned
    /\ CommentPosted =>
           /\ route.http = 200
           /\ route.comment.session = NewSession.url
           /\ route.comment.status = "started"
    /\ AnsweredWithoutPlan =>
           (route.http = 400 /\ nCreate = 0 /\ ~CommentPosted)
    /\ ExecutionFailed => (route.http = 500 /\ ~CommentPosted)

\* C34 as amended: the handler fetches the ticket before it looks at the
\* request body, so a request without an action plan is answered 400 when
\* the fetch succeeded and 500 when it failed, in both cases with no
\* session created and no comment posted.  The rest is as stated: the
\* comment is posted only after executeActionPlan returned a handle, and a
\* failed execution is answered 500 with no comment.
C34_ExecuteRouteOrder ==
    /\ route.pc = "comment" => HandleReturned
    /\ CommentPosted =>
           /\ route.http = 200
           /\ route.comment.session = NewSession.url
           /\ route.comment.status = "started"
    /\ AnsweredWithoutPlan =>
           /\ route.http = IF route.issue # Null THEN 400 ELSE 500
           /\ nCreate = 0 /\ ~CommentPosted
    /\ ExecutionFailed => (route.http = 500 /\ ~CommentPosted)

C34_Witness ==
    /\ route.pc = "answered" /\ route.http = 200
    /\ HandleReturned
    /\ route.comment.session = result.session_url
    /\ route.comment.steps = <<>>
====
